---- MODULE Spec2Model ----
(***************************************************************************)
(* SchemaProcessor of app.js: the schema store, main-schema selection,     *)
(* reference resolution, allOf flattening and keyword aggregation.         *)
(*                                                                         *)
(* JavaScript values are tagged records [k |-> kind, v |-> content].       *)
(* A string is a sequence of one-character strings, so that endsWith,      *)
(* startsWith, substring and split work on characters.  An object is the   *)
(* sequence of its <<key, value>> pairs as written in the JSON text, with  *)
(* distinct keys.  Only own properties are modelled (no prototype chain).  *)
(***************************************************************************)
EXTENDS Integers, Sequences, FiniteSets, TLC

VARIABLES schemas, mainSchema, keywordUsage, calls, probe, hist, qin, qout,
          selectedColumns, draggedIndex, keywordStats, columnList

columnVars == <<selectedColumns, draggedIndex, keywordStats, columnList>>

vars == <<schemas, mainSchema, keywordUsage, calls, probe, hist, qin, qout, columnVars>>

(***************************************************************************)
(* Bounds                                                                  *)
(***************************************************************************)
MaxFiles == 2
StackLimit == 4
MaxStore == 2
MaxBranches == 3
MaxUndefined == 1

(***************************************************************************)
(* JavaScript values                                                       *)
(***************************************************************************)
Undefined == [k |-> "undefined", v |-> <<>>]
Null == [k |-> "null", v |-> <<>>]
JBool(b) == [k |-> "boolean", v |-> b]
JNum(n) == [k |-> "number", v |-> n]
JStr(s) == [k |-> "string", v |-> s]
JArr(elems) == [k |-> "array", v |-> elems]
JObj(pairs) == [k |-> "object", v |-> pairs]

\* ToBoolean, as used by `if (x)`, `!x` and `x || y`
Truthy(x) ==
    CASE x.k = "undefined" -> FALSE
      [] x.k = "null" -> FALSE
      [] x.k = "boolean" -> x.v
      [] x.k = "number" -> x.v # 0
      [] x.k = "string" -> x.v # <<>>
      [] OTHER -> TRUE

Digits == <<"0", "1", "2", "3", "4", "5", "6", "7", "8", "9">>

IsDigit(c) == \E d \in 1..Len(Digits) : Digits[d] = c

DigitVal(c) == (CHOOSE d \in 1..Len(Digits) : Digits[d] = c) - 1

RECURSIVE NumVal(_)
NumVal(s) ==
    IF s = <<>> THEN 0
    ELSE 10 * NumVal(SubSeq(s, 1, Len(s) - 1)) + DigitVal(s[Len(s)])

\* a canonical array index: decimal digits without a leading zero
\* (keys of up to nine digits, all below 2^32 - 1)
IsArrayIndex(key) ==
    /\ Len(key) >= 1
    /\ Len(key) <= 9
    /\ \A i \in 1..Len(key) : IsDigit(key[i])
    /\ (Len(key) = 1 \/ key[1] # "0")

HasOwn(x, key) ==
    CASE x.k = "object" -> \E i \in 1..Len(x.v) : x.v[i][1] = key
      [] x.k = "array" -> IsArrayIndex(key) /\ NumVal(key) < Len(x.v)
      [] OTHER -> FALSE

\* property access x[key]
Get(x, key) ==
    IF HasOwn(x, key)
    THEN IF x.k = "object"
         THEN x.v[CHOOSE i \in 1..Len(x.v) : x.v[i][1] = key][2]
         ELSE x.v[NumVal(key) + 1]
    ELSE Undefined

RECURSIVE InsertByIndex(_, _)
InsertByIndex(sorted, pair) ==
    IF sorted = <<>> THEN <<pair>>
    ELSE IF NumVal(pair[1]) < NumVal(Head(sorted)[1])
         THEN <<pair>> \o sorted
         ELSE <<Head(sorted)>> \o InsertByIndex(Tail(sorted), pair)

RECURSIVE SortByIndex(_)
SortByIndex(pairs) ==
    IF pairs = <<>> THEN <<>>
    ELSE InsertByIndex(SortByIndex(SubSeq(pairs, 1, Len(pairs) - 1)), pairs[Len(pairs)])

IsIndexPair(pair) == IsArrayIndex(pair[1])

IsNamePair(pair) == ~IsArrayIndex(pair[1])

\* own property order of an object: array-index keys in ascending numeric
\* order, then the other keys in insertion order
OwnEntries(pairs) ==
    SortByIndex(SelectSeq(pairs, IsIndexPair)) \o SelectSeq(pairs, IsNamePair)

ObjectEntries(x) == IF x.k = "object" THEN OwnEntries(x.v) ELSE <<>>

ObjectKeys(x) ==
    LET es == ObjectEntries(x) IN [i \in 1..Len(es) |-> es[i][1]]

(***************************************************************************)
(* String methods                                                          *)
(***************************************************************************)
startsWith(s, p) == Len(p) <= Len(s) /\ SubSeq(s, 1, Len(p)) = p

endsWith(s, p) == Len(p) <= Len(s) /\ SubSeq(s, Len(s) - Len(p) + 1, Len(s)) = p

substring(s, from) == IF from >= Len(s) THEN <<>> ELSE SubSeq(s, from + 1, Len(s))

RECURSIVE splitAcc(_, _, _, _)
splitAcc(s, sep, cur, acc) ==
    IF s = <<>> THEN Append(acc, cur)
    ELSE IF Head(s) = sep
         THEN splitAcc(Tail(s), sep, <<>>, Append(acc, cur))
         ELSE splitAcc(Tail(s), sep, Append(cur, Head(s)), acc)

split(s, sep) == splitAcc(s, sep, <<>>, <<>>)

(***************************************************************************)
(* Property names and string literals of the source                        *)
(***************************************************************************)
kw_id == <<"$", "i", "d">>
kw_type == <<"t", "y", "p", "e">>
kw_items == <<"i", "t", "e", "m", "s">>
kw_ref == <<"$", "r", "e", "f">>
kw_properties == <<"p", "r", "o", "p", "e", "r", "t", "i", "e", "s">>
kw_required == <<"r", "e", "q", "u", "i", "r", "e", "d">>
kw_allOf == <<"a", "l", "l", "O", "f">>
kw_title == <<"t", "i", "t", "l", "e">>
kw_description == <<"d", "e", "s", "c", "r", "i", "p", "t", "i", "o", "n">>
kw_schema == <<"$", "s", "c", "h", "e", "m", "a">>
kw_anyOf == <<"a", "n", "y", "O", "f">>
kw_oneOf == <<"o", "n", "e", "O", "f">>
kw_enumDescriptions ==
    <<"e", "n", "u", "m", "D", "e", "s", "c", "r", "i", "p", "t", "i", "o", "n", "s">>
str_array == <<"a", "r", "r", "a", "y">>
str_DatasetSchema ==
    <<"D", "a", "t", "a", "s", "e", "t", " ", "S", "c", "h", "e", "m", "a">>

excludedKeywords_noRef ==
    {kw_schema, kw_id, kw_properties, kw_items, kw_allOf, kw_anyOf,
     kw_oneOf, kw_enumDescriptions}

excludedKeywords ==
    {kw_schema, kw_id, kw_ref, kw_properties, kw_items, kw_allOf, kw_anyOf,
     kw_oneOf, kw_enumDescriptions}

(***************************************************************************)
(* Map (insertion ordered): a sequence of <<key, value>> with distinct keys *)
(***************************************************************************)
MapHas(m, key) == \E i \in 1..Len(m) : m[i][1] = key

MapVal(m, key) == m[CHOOSE i \in 1..Len(m) : m[i][1] = key][2]

MapSet_first(m, key, val) ==
    IF MapHas(m, key) THEN m ELSE Append(m, <<key, val>>)

MapSet(m, key, val) ==
    IF MapHas(m, key)
    THEN [i \in 1..Len(m) |-> IF m[i][1] = key THEN <<key, val>> ELSE m[i]]
    ELSE Append(m, <<key, val>>)

(***************************************************************************)
(* resolveRef                                                              *)
(***************************************************************************)
RECURSIVE walkPath(_, _)
walkPath(current, path) ==
    IF path = <<>> THEN current
    ELSE LET next == Get(current, Head(path))
         IN IF ~Truthy(next) THEN Null ELSE walkPath(next, Tail(path))

refPath_from1(ref) == split(substring(ref, 1), "/")

refPath(ref) == split(substring(ref, 2), "/")

idMatches_oneWay(id, ref) == endsWith(id, ref)

idMatches_strict(id, ref) == (endsWith(id, ref) \/ endsWith(ref, id)) /\ id # ref

idMatches(id, ref) == endsWith(id, ref) \/ endsWith(ref, id)

schemasGetOrNull(store, ref) ==
    IF MapHas(store, ref) /\ Truthy(MapVal(store, ref))
    THEN MapVal(store, ref)
    ELSE Null

RECURSIVE scanSchemas(_, _, _)
scanSchemas(store, ref, i) ==
    IF i > Len(store) THEN schemasGetOrNull(store, ref)
    ELSE IF idMatches(store[i][1], ref) THEN store[i][2]
         ELSE scanSchemas(store, ref, i + 1)

resolveRef(store, ref, baseSchema) ==
    IF startsWith(ref, <<"#">>)
    THEN walkPath(baseSchema, refPath(ref))
    ELSE scanSchemas(store, ref, 1)

(***************************************************************************)
(* extractProperties.  The recursion depth is bounded by StackLimit, the   *)
(* call stack of the engine: exceeding it throws a RangeError.             *)
(***************************************************************************)
\* schema.required?.includes(name) || false, for a required that is an array
\* or absent (Array.prototype.includes compares with SameValueZero, so only
\* a string element can equal the name)
requiredIncludes_nonEmpty(schema, name) ==
    Get(schema, kw_required).k = "array" /\ Len(Get(schema, kw_required).v) > 0

requiredIncludes(schema, name) ==
    LET req == Get(schema, kw_required)
    IN /\ req.k = "array"
       /\ \E i \in 1..Len(req.v) : req.v[i].k = "string" /\ req.v[i].v = name

directProperties(schema, category) ==
    IF Truthy(Get(schema, kw_properties))
    THEN LET es == ObjectEntries(Get(schema, kw_properties))
         IN [i \in 1..Len(es) |->
                [category |-> category,
                 name |-> es[i][1],
                 schema |-> es[i][2],
                 required |-> requiredIncludes(schema, es[i][1])]]
    ELSE <<>>

subCategory_inherit(resolved, category) == category

subCategory(resolved, category) ==
    IF Truthy(Get(resolved, kw_title)) THEN Get(resolved, kw_title) ELSE category

pushAll_front(result, more) == more \o result

pushAll(result, more) == result \o more

\* line 83 has no else: an unresolved branch leaves result as it is
skipBranch_clear(result) == <<>>

skipBranch(result) == result

\* line 82: the base handed to resolveRef is the node that holds the allOf
refBase_branch(schema, subSchema) == subSchema

refBase(schema, subSchema) == schema

Thrown_empty(e) == [err |-> "none", result |-> <<>>]

Thrown(e) == [err |-> e, result |-> <<>>]

Returned(r) == [err |-> "none", result |-> r]

RECURSIVE extractProperties(_, _, _, _)
RECURSIVE extractAllOf(_, _, _, _, _, _)

extractProperties(store, schema, category, depth) ==
    IF depth > StackLimit THEN Thrown("RangeError")
    ELSE LET direct == directProperties(schema, category)
             allOf == Get(schema, kw_allOf)
         IN IF Truthy(allOf)
            THEN IF allOf.k = "array"
                 THEN extractAllOf(store, schema, category, depth, 1, direct)
                 ELSE Thrown("TypeError")
            ELSE Returned(direct)

extractAllOf(store, schema, category, depth, i, result) ==
    LET allOf == Get(schema, kw_allOf)
    IN IF i > Len(allOf.v) THEN Returned(result)
       ELSE LET subSchema == allOf.v[i]
                ref == Get(subSchema, kw_ref)
            IN IF subSchema.k \in {"null", "undefined"} THEN Thrown("TypeError")
               ELSE IF Truthy(ref)
               THEN IF ref.k # "string" THEN Thrown("TypeError")
                    ELSE LET resolved == resolveRef(store, ref.v, refBase(schema, subSchema))
                         IN IF Truthy(resolved)
                            THEN LET sub == extractProperties(store, resolved,
                                                subCategory(resolved, category), depth + 1)
                                 IN IF sub.err # "none" THEN sub
                                    ELSE extractAllOf(store, schema, category, depth,
                                                      i + 1, pushAll(result, sub.result))
                            ELSE extractAllOf(store, schema, category, depth, i + 1,
                                              skipBranch(result))
               ELSE LET sub == extractProperties(store, subSchema, category, depth + 1)
                    IN IF sub.err # "none" THEN sub
                       ELSE extractAllOf(store, schema, category, depth,
                                         i + 1, pushAll(result, sub.result))

(***************************************************************************)
(* getTableData                                                            *)
(***************************************************************************)
TableNull == [kind |-> "null", title |-> Null, description |-> Null, properties |-> <<>>]

TableThrown(e) == [kind |-> e, title |-> Null, description |-> Null, properties |-> <<>>]

orElse(x, y) == IF Truthy(x) THEN x ELSE y

\* lines 135-139
tableOf(main, ex) ==
    IF ex.err # "none" THEN TableThrown(ex.err)
    ELSE [kind |-> "data",
          title |-> orElse(Get(main, kw_title), JStr(str_DatasetSchema)),
          description |-> orElse(Get(main, kw_description), JStr(<<>>)),
          properties |-> ex.result]

\* lines 131-133
tableOfItems(store, main, itemSchema) ==
    IF ~Truthy(itemSchema) THEN TableNull
    ELSE tableOf(main, extractProperties(store, itemSchema, Null, 1))

\* lines 126-129
itemSchemaOf_follow(store, main, items, ref) ==
    IF Truthy(ref)
    THEN IF Truthy(Get(resolveRef(store, ref.v, main), kw_ref))
         THEN resolveRef(store, Get(resolveRef(store, ref.v, main), kw_ref).v, main)
         ELSE resolveRef(store, ref.v, main)
    ELSE items

itemSchemaOf(store, main, items, ref) ==
    IF Truthy(ref) THEN resolveRef(store, ref.v, main) ELSE items

getTableDataOf(store, main, items, ref) ==
    IF Truthy(ref) /\ ref.k # "string" THEN TableThrown("TypeError")
    ELSE tableOfItems(store, main, itemSchemaOf(store, main, items, ref))

getTableData(store, main) ==
    IF ~Truthy(main) THEN TableNull
    ELSE getTableDataOf(store, main, Get(main, kw_items), Get(Get(main, kw_items), kw_ref))

(***************************************************************************)
(* collectKeywordUsage                                                     *)
(***************************************************************************)
countKeyword(usage, keyword) ==
    IF keyword \in excludedKeywords THEN usage
    ELSE MapSet(usage, keyword, (IF MapHas(usage, keyword) THEN MapVal(usage, keyword) ELSE 0) + 1)

RECURSIVE countKeys(_, _)
countKeys(usage, keys) ==
    IF keys = <<>> THEN usage
    ELSE countKeys(countKeyword(usage, Head(keys)), Tail(keys))

RECURSIVE countProperties(_, _)
countProperties(usage, properties) ==
    IF properties = <<>> THEN [err |-> "none", usage |-> usage]
    ELSE IF Head(properties).schema.k \in {"null", "undefined"}
         THEN [err |-> "TypeError", usage |-> usage]
         ELSE countProperties(countKeys(usage, ObjectKeys(Head(properties).schema)),
                              Tail(properties))

\* lines 98-113, given the result of getTableData()
countTable(td, usage) ==
    IF td.kind \notin {"null", "data"} THEN [err |-> td.kind, usage |-> usage]
    ELSE countProperties(usage, td.properties)

collectKeywordUsage(store, main, usage) == countTable(getTableData(store, main), usage)

(***************************************************************************)
(* processFiles.  A file is [name, text]; text is abstracted to whether it *)
(* is valid JSON and, when it is, the value JSON.parse returns for it.     *)
(***************************************************************************)
Calls == {"c1", "c2"}

File(name, json) == [name |-> name, text |-> [valid |-> TRUE, json |-> json]]

BadFile(name) == [name |-> name, text |-> [valid |-> FALSE, json |-> Null]]

JSONparse(text) ==
    IF text.valid THEN [err |-> "none", value |-> text.json]
    ELSE [err |-> "SyntaxError", value |-> Undefined]

clearMap_keep(m) == m

clearMap(m) == <<>>

storeKey(schema, file) ==
    IF Truthy(Get(schema, kw_id)) THEN Get(schema, kw_id).v ELSE file.name

isMainCandidate(schema) ==
    Get(schema, kw_type) = JStr(str_array) /\ Truthy(Get(schema, kw_items))

\* lines 16-28: one iteration of the load loop, after file.text() resolved
loadSchema(store, main, file) ==
    LET parsed == JSONparse(file.text)
        schema == parsed.value
    IN IF parsed.err # "none"
       THEN [err |-> parsed.err, schemas |-> store, mainSchema |-> main]
       ELSE IF schema.k = "null"
       THEN [err |-> "TypeError", schemas |-> store, mainSchema |-> main]
       ELSE [err |-> "none",
             schemas |-> MapSet(store, storeKey(schema, file), schema),
             mainSchema |-> IF isMainCandidate(schema) THEN schema ELSE main]

singleSchemaFallback(store, main) ==
    IF ~Truthy(main) /\ Len(store) = 1 THEN store[1][2] ELSE main

\* lines 31-41: after the loop
\* lines 38-41, given what collectKeywordUsage did
returnCollected(main, col) ==
    [status |-> IF col.err # "none" THEN col.err ELSE "true",
     mainSchema |-> main, keywordUsage |-> col.usage]

\* lines 37-41
collectAndReturn(store, main, usage) ==
    IF Truthy(main)
    THEN returnCollected(main, collectKeywordUsage(store, main, usage))
    ELSE [status |-> IF main.k # "null" THEN "true" ELSE "false",
          mainSchema |-> main, keywordUsage |-> usage]

finishLoad(store, main, usage) ==
    collectAndReturn(store, singleSchemaFallback(store, main), usage)

Finished(c) == calls[c].status \notin {"idle", "await"}

NoneInFlight == \A c \in Calls : calls[c].status # "await"

Snapshot(store, main, usage, status) ==
    [schemas |-> store, mainSchema |-> main, keywordUsage |-> usage,
     tableData |-> getTableData(store, main), status |-> status]

\* history of the completed runs of call c1 on the probe input
recordRun(h, c, files, store, main, usage, status) ==
    IF probe.on /\ c = "c1" /\ status # "await"
    THEN IF files = probe.files
         THEN IF h.runs = 0
              THEN [runs |-> 1, other |-> FALSE,
                    snap |-> Snapshot(store, main, usage, status)]
              ELSE [runs |-> 2, other |-> h.other, snap |-> h.snap]
         ELSE [runs |-> h.runs, other |-> h.runs >= 1, snap |-> h.snap]
    ELSE h

\* a call ends: what it leaves in the processor and in its frame
completeCall(c, files, store, fin, overlap) ==
    /\ schemas' = store
    /\ mainSchema' = fin.mainSchema
    /\ keywordUsage' = fin.keywordUsage
    /\ calls' = [calls EXCEPT ![c] =
                   [status |-> fin.status, files |-> files, i |-> Len(files), ov |-> overlap]]
    /\ hist' = recordRun(hist, c, files, store, fin.mainSchema, fin.keywordUsage, fin.status)

\* lines 8-15: the call up to its first await (or to its end when files is empty)
processFiles(c, files) ==
    /\ calls[c].status # "await"
    /\ IF files = <<>>
       THEN completeCall(c, files, clearMap(schemas),
                         finishLoad(clearMap(schemas), Null, clearMap(keywordUsage)),
                         \E d \in Calls \ {c} : calls[d].status = "await")
       ELSE /\ schemas' = clearMap(schemas)
            /\ mainSchema' = Null
            /\ keywordUsage' = clearMap(keywordUsage)
            /\ calls' = [calls EXCEPT ![c] =
                           [status |-> "await", files |-> files, i |-> 1,
                            ov |-> \E d \in Calls \ {c} : calls[d].status = "await"]]
            /\ hist' = hist
    /\ UNCHANGED <<probe, qin, qout, columnVars>>

\* lines 16-41 for the file just read, given what lines 16-28 did with it
resumeWith(c, fr, ld) ==
    IF ld.err # "none"
    THEN /\ UNCHANGED <<schemas, mainSchema, keywordUsage>>
         /\ calls' = [calls EXCEPT ![c].status = ld.err]
         /\ hist' = recordRun(hist, c, fr.files, schemas, mainSchema, keywordUsage, ld.err)
    ELSE IF fr.i < Len(fr.files)
    THEN /\ schemas' = ld.schemas
         /\ mainSchema' = ld.mainSchema
         /\ UNCHANGED keywordUsage
         /\ calls' = [calls EXCEPT ![c].i = fr.i + 1]
         /\ hist' = hist
    ELSE completeCall(c, fr.files, ld.schemas,
                      finishLoad(ld.schemas, ld.mainSchema, keywordUsage), fr.ov)

\* the continuation of a call after `await file.text()`: lines 16-28 for the
\* current file, then either the next await or lines 31-41
resumeProcessFiles(c) ==
    /\ calls[c].status = "await"
    /\ resumeWith(c, calls[c], loadSchema(schemas, mainSchema, calls[c].files[calls[c].i]))
    /\ UNCHANGED <<probe, qin, qout, columnVars>>

(***************************************************************************)
(* Input documents                                                         *)
(***************************************************************************)
s_a == <<"a">>
s_b == <<"b">>
s_ab == <<"a", "b">>
s_ba == <<"b", "a">>
s_c == <<"c">>
s_d == <<"d">>
s_f == <<"f">>
s_g == <<"g">>
s_w == <<"w">>
s_x == <<"x">>
s_y == <<"y">>
s_z == <<"z">>
s_T == <<"T">>
s_U == <<"U">>
s_1 == <<"1">>
s_2 == <<"2">>
kw_minLength == <<"m", "i", "n", "L", "e", "n", "g", "t", "h">>
kw_pattern == <<"p", "a", "t", "t", "e", "r", "n">>

\* a document: its $id when id is not empty, then the pairs of body
Doc(id, body) ==
    JObj((IF id = <<>> THEN <<>> ELSE << <<kw_id, JStr(id)>> >>) \o body)

fragX == JObj(<< <<kw_type, JStr(s_x)>>, <<kw_minLength, JNum(3)>> >>)
fragY == JObj(<< <<kw_type, JStr(s_y)>>, <<kw_ref, JStr(s_c)>> >>)
fragZ == JObj(<< <<kw_pattern, JStr(s_z)>>, <<kw_items, JBool(TRUE)>> >>)
fragW == JObj(<< <<kw_title, JStr(s_w)>>, <<kw_type, JStr(s_w)>> >>)

rowXY ==
    JObj(<< <<kw_properties, JObj(<< <<s_x, fragX>>, <<s_y, fragY>> >>)>>,
            <<kw_required, JArr(<<JStr(s_x)>>)>> >>)

rowW == JObj(<< <<kw_properties, JObj(<< <<s_w, fragW>> >>)>> >>)

\* type array with an inline item schema
bodyArray == << <<kw_type, JStr(str_array)>>, <<kw_items, rowXY>> >>

\* an object schema: no items
bodyObject ==
    << <<kw_type, JStr(s_b)>>, <<kw_title, JStr(s_T)>>,
       <<kw_properties, JObj(<< <<s_x, fragX>>, <<s_z, fragZ>> >>)>> >>

\* items but no type
bodyNoType == << <<kw_items, rowW>> >>

\* type array, items and allOf both referring to the document called "a"
bodyArrayRef ==
    << <<kw_type, JStr(str_array)>>,
       <<kw_items, JObj(<< <<kw_ref, JStr(s_a)>> >>)>>,
       <<kw_properties, JObj(<< <<s_z, fragZ>> >>)>>,
       <<kw_allOf, JArr(<< JObj(<< <<kw_ref, JStr(s_a)>> >>) >>)>> >>

Bodies == {bodyArray, bodyObject, bodyNoType, bodyArrayRef}

Files ==
    {File(n, Doc(<<>>, b)) : n \in {s_f, s_g}, b \in Bodies}
    \cup {File(s_f, Doc(id, b)) : id \in {s_a, s_ba}, b \in Bodies}
    \cup {BadFile(s_f)}

InputsOver(fileSet) == UNION {[1..n -> fileSet] : n \in 0..MaxFiles}

Inputs == InputsOver(Files)

(***************************************************************************)
(* The processor driven by one caller that awaits each call (Spec)         *)
(***************************************************************************)
\* ColumnManager.constructor, lines 146-151 and 186-192; draggedIndex -1 is
\* null; columnList is the list of checkbox items of the rendered selector
defaultColumns == <<"name", "description", "type", "enum", "required">>

InitColumns ==
    /\ selectedColumns = defaultColumns
    /\ draggedIndex = -1
    /\ keywordStats = Undefined
    /\ columnList = <<>>

IdleFrame == [status |-> "idle", files |-> <<>>, i |-> 0, ov |-> FALSE]

NoProbe == [on |-> FALSE, files |-> <<>>]

NoHist == [runs |-> 0, other |-> FALSE, snap |-> Snapshot(<<>>, Null, <<>>, "idle")]

NoQuery == [done |-> FALSE, val |-> Null]

InitProcessor ==
    /\ schemas = <<>>
    /\ mainSchema = Null
    /\ keywordUsage = <<>>
    /\ calls = [c \in Calls |-> IdleFrame]
    /\ hist = NoHist

Init ==
    /\ InitProcessor
    /\ probe = NoProbe
    /\ qin = NoQuery
    /\ qout = NoQuery
    /\ InitColumns

Process == \E files \in Inputs : NoneInFlight /\ processFiles("c1", files)

Resume == resumeProcessFiles("c1")

Next == Process \/ Resume

Spec == Init /\ [][Next]_vars

(***************************************************************************)
(* Main-schema selection                                                   *)
(***************************************************************************)
AllValid(files) == \A i \in 1..Len(files) : files[i].text.valid

DocAt(files, i) == files[i].text.json

\* "type exactly array and a present items", as the specification words it
Qualifies(doc) == Get(doc, kw_type) = JStr(str_array) /\ HasOwn(doc, kw_items)

QualifyingIndexes(files) == {i \in 1..Len(files) : Qualifies(DocAt(files, i))}

LastOf(indexes) == CHOOSE i \in indexes : \A j \in indexes : j <= i

Loaded(c) == calls[c].status \in {"true", "false", "RangeError", "TypeError"}

\* C1: after processFiles on two or more documents the main schema is the
\* last document in input order with type "array" and items; when no
\* document qualifies the call returns false and getTableData() is null
C1_LastArrayDocumentIsMain ==
    \A c \in Calls :
        (Loaded(c) /\ Len(calls[c].files) >= 2 /\ AllValid(calls[c].files)) =>
            LET files == calls[c].files
                q == QualifyingIndexes(files)
            IN IF q # {}
               THEN mainSchema = DocAt(files, LastOf(q))
               ELSE /\ calls[c].status = "false"
                    /\ getTableData(schemas, mainSchema).kind = "null"

\* C2: processFiles on exactly one document makes that document the main
\* schema and returns true
C2_SingleDocumentIsMain ==
    \A c \in Calls :
        (Finished(c) /\ Len(calls[c].files) = 1 /\ AllValid(calls[c].files)) =>
            /\ mainSchema = DocAt(calls[c].files, 1)
            /\ calls[c].status = "true"

\* C8: after a call that failed on a document that is not valid JSON the
\* processor has no main schema, getTableData() is null and keyword usage
\* is empty
C8_ParseFailureLeavesNothing ==
    \A c \in Calls :
        calls[c].status = "SyntaxError" =>
            /\ mainSchema = Null
            /\ getTableData(schemas, mainSchema).kind = "null"
            /\ keywordUsage = <<>>

(***************************************************************************)
(* Keyword usage                                                           *)
(***************************************************************************)
C5_Excluded ==
    {kw_schema, kw_id, kw_ref, kw_properties, kw_items, kw_allOf, kw_anyOf,
     kw_oneOf, kw_enumDescriptions}

TableProperties == getTableData(schemas, mainSchema).properties

FragmentKeys ==
    UNION {{TableProperties[i].schema.v[j][1] : j \in 1..Len(TableProperties[i].schema.v)} :
             i \in {n \in 1..Len(TableProperties) : TableProperties[n].schema.k = "object"}}

FragmentsWithKey(key) ==
    Cardinality({i \in 1..Len(TableProperties) : HasOwn(TableProperties[i].schema, key)})

\* C5: after a successful processFiles the count of a keyword outside the
\* excluded set equals the number of extracted properties whose fragment has
\* that key; excluded and unused keywords have no entry; counts are >= 1
C5_KeywordCounts ==
    calls["c1"].status = "true" =>
        /\ \A key \in FragmentKeys \cup C5_Excluded \cup {kw_description} :
              IF key \notin C5_Excluded /\ FragmentsWithKey(key) > 0
              THEN MapHas(keywordUsage, key)
                   /\ MapVal(keywordUsage, key) = FragmentsWithKey(key)
              ELSE ~MapHas(keywordUsage, key)
        /\ \A i \in 1..Len(keywordUsage) :
              /\ keywordUsage[i][2] >= 1
              /\ keywordUsage[i][1] \in FragmentKeys
              /\ \A j \in 1..Len(keywordUsage) : keywordUsage[j][1] = keywordUsage[i][1] => j = i

C5_Witness ==
    /\ calls["c1"].status = "true"
    /\ \E i \in 1..Len(keywordUsage) : keywordUsage[i][2] >= 2
    /\ \E i \in 1..Len(TableProperties) : HasOwn(TableProperties[i].schema, kw_ref)
    /\ FragmentsWithKey(kw_description) = 0

(***************************************************************************)
(* Re-running processFiles (SpecRerun): one caller that awaits each call;  *)
(* hist keeps the outcome of the first completed run on the probe input.   *)
(***************************************************************************)
RerunFiles ==
    {File(s_f, Doc(s_a, bodyArray)), File(s_g, Doc(<<>>, bodyNoType)),
     File(s_f, Doc(s_a, bodyArrayRef)), BadFile(s_f)}

InitRerun ==
    /\ InitProcessor
    /\ probe \in {[on |-> TRUE, files |-> fs] : fs \in InputsOver(RerunFiles)}
    /\ qin = NoQuery
    /\ qout = NoQuery
    /\ InitColumns

ProcessRerun ==
    \E files \in InputsOver(RerunFiles) : NoneInFlight /\ processFiles("c1", files)

NextRerun == ProcessRerun \/ Resume

SpecRerun == InitRerun /\ [][NextRerun]_vars

\* C6: a later run of processFiles on the same inputs leaves the same store,
\* main schema, table data, keyword usage and result as the first run on
\* them, whatever ran before or in between
C6_RerunSameResult ==
    (Finished("c1") /\ calls["c1"].files = probe.files /\ hist.runs >= 1) =>
        Snapshot(schemas, mainSchema, keywordUsage, calls["c1"].status) = hist.snap

C6_Witness ==
    /\ Finished("c1")
    /\ calls["c1"].files = probe.files
    /\ hist.runs = 2
    /\ hist.other
    /\ calls["c1"].status = "true"
    /\ Len(schemas) = 2
    /\ keywordUsage # <<>>

(***************************************************************************)
(* Overlapping calls (SpecOverlap): the click handler starts processFiles  *)
(* again while an earlier call is suspended at `await file.text()`.        *)
(***************************************************************************)
OverlapFiles ==
    {File(s_f, Doc(s_a, bodyArray)), File(s_g, Doc(<<>>, bodyNoType)),
     File(s_f, Doc(s_ba, bodyObject))}

ProcessOverlap ==
    \E c \in Calls : \E files \in InputsOver(OverlapFiles) : processFiles(c, files)

ResumeOverlap == \E c \in Calls : resumeProcessFiles(c)

NextOverlap == ProcessOverlap \/ ResumeOverlap

SpecOverlap == Init /\ [][NextOverlap]_vars

RECURSIVE LoadAll(_, _, _)
LoadAll(st, files, i) ==
    IF i > Len(files) THEN st
    ELSE LET ld == loadSchema(st.schemas, st.mainSchema, files[i])
         IN LoadAll([schemas |-> ld.schemas, mainSchema |-> ld.mainSchema], files, i + 1)

\* what one call leaves when it runs alone on a fresh processor
RunAlone(files) ==
    LET ld == LoadAll([schemas |-> <<>>, mainSchema |-> Null], files, 1)
        fin == finishLoad(ld.schemas, ld.mainSchema, <<>>)
    IN <<ld.schemas, fin.mainSchema, fin.keywordUsage>>

\* C7: when two processFiles calls overlapped, the store, main schema and
\* keyword usage left after both finished are those of one of the calls alone
C7_OverlapLeavesOneRun ==
    (/\ \A c \in Calls : calls[c].status \in {"true", "false"}
     /\ \E c \in Calls : calls[c].ov) =>
        <<schemas, mainSchema, keywordUsage>> \in
            {RunAlone(calls[c].files) : c \in Calls}

(***************************************************************************)
(* resolveRef applied to a store and a reference (SpecResolve)             *)
(***************************************************************************)
SeqsUpTo(set, n) == UNION {[1..m -> set] : m \in 0..n}

StoreOf(files) == LoadAll([schemas |-> <<>>, mainSchema |-> Null], files, 1).schemas

ResolveFiles ==
    {File(s_f, Doc(id, <<>>)) : id \in {s_a, s_b, s_ab, s_ba}}
    \cup {File(s_c, Doc(<<>>, << <<kw_title, JStr(s_c)>> >>))}

ExternalRefs ==
    {<<>>, s_a, s_b, s_c, s_ab, s_ba, <<"a", "a">>, <<"b", "a", "b">>, <<"c", "c">>}

defsNode ==
    JObj(<< <<s_x, rowXY>>, <<s_f, JBool(FALSE)>>, <<s_z, JNum(0)>>,
            <<s_y, JStr(<<>>)>>, <<s_w, Null>>, <<s_b, JBool(TRUE)>>,
            <<<<>>, rowW>> >>)

baseDefs ==
    JObj(<< <<s_d, defsNode>>,
            <<<<>>, JObj(<< <<s_x, rowW>> >>)>>,
            <<s_a, JArr(<<rowW, JNum(0)>>)>> >>)

ResolveBases == {baseDefs, JObj(<<>>)}

InternalRefs ==
    {<<"#">>, <<"#", "/">>, <<"#", "/", "d">>, <<"#", "/", "d", "/", "x">>,
     <<"#", "/", "d", "/", "f">>, <<"#", "/", "d", "/", "z", "/", "x">>,
     <<"#", "/", "d", "/", "y">>, <<"#", "/", "d", "/", "w">>,
     <<"#", "/", "d", "/", "b">>, <<"#", "/", "d", "/", "b", "/", "x">>,
     <<"#", "/", "d", "/">>, <<"#", "/", "c">>, <<"#", "/", "c", "/", "x">>,
     <<"#", "/", "/", "x">>, <<"#", "d">>, <<"#", "c", "d", "/", "x">>,
     <<"#", "/", "a", "/", "0">>, <<"#", "/", "a", "/", "1">>,
     <<"#", "/", "a", "/", "2">>,
     <<"#", "/", "d", "/", "x", "/">> \o kw_properties \o <<"/", "y">>}

InitResolve ==
    /\ schemas \in {StoreOf(fs) : fs \in SeqsUpTo(ResolveFiles, MaxStore)}
    /\ mainSchema = Null
    /\ keywordUsage = <<>>
    /\ calls = [c \in Calls |-> IdleFrame]
    /\ hist = NoHist
    /\ probe = NoProbe
    /\ qin \in {[ref |-> r, base |-> b] :
                    r \in ExternalRefs \cup InternalRefs, b \in ResolveBases}
    /\ qout = NoQuery
    /\ InitColumns

CallResolveRef ==
    /\ ~qout.done
    /\ qout' = [done |-> TRUE, val |-> resolveRef(schemas, qin.ref, qin.base)]
    /\ UNCHANGED <<schemas, mainSchema, keywordUsage, calls, probe, hist, qin, columnVars>>

NextResolve == CallResolveRef

SpecResolve == InitResolve /\ [][NextResolve]_vars

IsInternalRef(ref) == Len(ref) >= 1 /\ ref[1] = "#"

IsSuffixOf(p, s) == \E n \in 0..Len(s) : SubSeq(s, n + 1, Len(s)) = p

SuffixMatch(i) ==
    IsSuffixOf(schemas[i][1], qin.ref) \/ IsSuffixOf(qin.ref, schemas[i][1])

\* C9: for a ref not starting with '#', resolveRef returns the document of
\* the first identifier in store order that is a suffix of ref or has ref as
\* a suffix; without one, the document stored under ref itself, else null
C9_ExternalFirstSuffixMatch ==
    (qout.done /\ ~IsInternalRef(qin.ref)) =>
        IF \E i \in 1..Len(schemas) : SuffixMatch(i)
        THEN \E i \in 1..Len(schemas) :
                /\ SuffixMatch(i)
                /\ \A j \in 1..(i - 1) : ~SuffixMatch(j)
                /\ qout.val = schemas[i][2]
        ELSE IF \E i \in 1..Len(schemas) : schemas[i][1] = qin.ref
        THEN \E i \in 1..Len(schemas) :
                schemas[i][1] = qin.ref /\ qout.val = schemas[i][2]
        ELSE qout.val = Null

C9_Witness ==
    /\ qout.done
    /\ ~IsInternalRef(qin.ref)
    /\ Len(schemas) = 2
    /\ ~SuffixMatch(1)
    /\ IsSuffixOf(schemas[2][1], qin.ref)
    /\ schemas[2][1] # qin.ref
    /\ qout.val = schemas[2][2]

RECURSIVE Join(_, _)
Join(segments, sep) ==
    IF Len(segments) = 0 THEN <<>>
    ELSE IF Len(segments) = 1 THEN segments[1]
    ELSE segments[1] \o <<sep>> \o Join(Tail(segments), sep)

RECURSIVE ValueAt(_, _, _)
ValueAt(base, path, n) ==
    IF n = 0 THEN base ELSE Get(ValueAt(base, path, n - 1), path[n])

AfterTwo(ref) == [i \in 1..(IF Len(ref) > 2 THEN Len(ref) - 2 ELSE 0) |-> ref[i + 2]]

docTitled ==
    Doc(s_a, << <<kw_title, JStr(s_T)>>,
                <<kw_properties, JObj(<< <<s_x, fragX>> >>)>>,
                <<kw_required, JArr(<<JStr(s_x)>>)>> >>)

docEmptyTitle ==
    Doc(s_a, << <<kw_title, JStr(<<>>)>>,
                <<kw_properties, JObj(<< <<s_x, fragX>> >>)>> >>)

docUntitled ==
    Doc(s_a, << <<kw_properties,
                  JObj(<< <<s_x, fragW>>, <<s_2, fragZ>>, <<s_1, fragY>> >>)>> >>)

docNested ==
    Doc(s_b, << <<kw_title, JStr(s_U)>>,
                <<kw_properties, JObj(<< <<s_y, fragY>> >>)>>,
                <<kw_allOf, JArr(<< JObj(<< <<kw_ref, JStr(s_a)>> >>) >>)>> >>)

ExtractFiles == {File(s_f, d) : d \in {docTitled, docEmptyTitle, docUntitled, docNested}}

refBranch(ref) == JObj(<< <<kw_ref, JStr(ref)>> >>)

inlineBranch ==
    JObj(<< <<kw_title, JStr(s_g)>>,
            <<kw_properties, JObj(<< <<s_x, fragW>> >>)>>,
            <<kw_required, JArr(<<JStr(s_x)>>)>> >>)

ExtractBranches ==
    {refBranch(s_a), refBranch(s_b), refBranch(s_c), refBranch(<<"#", "/", "d">>),
     inlineBranch}

NodeProperties ==
    {<<>>,
     << <<kw_properties, JObj(<< <<s_x, fragX>>, <<s_y, fragY>> >>)>>,
        <<kw_required, JArr(<<JStr(s_y)>>)>> >>,
     << <<kw_properties, JObj(<< <<s_y, fragY>>, <<s_2, fragZ>>, <<s_1, fragX>> >>)>> >>}

localDef ==
    JObj(<< <<kw_title, JStr(s_d)>>, <<kw_properties, JObj(<< <<s_w, fragW>> >>)>> >>)

ExtractNode(props, branches) ==
    JObj(props
         \o (IF branches = <<>> THEN <<>> ELSE << <<kw_allOf, JArr(branches)>> >>)
         \o << <<s_d, localDef>> >>)

ExtractNodes ==
    {ExtractNode(p, bs) : p \in NodeProperties, bs \in SeqsUpTo(ExtractBranches, MaxBranches)}

InitExtract ==
    /\ schemas \in {StoreOf(fs) : fs \in SeqsUpTo(ExtractFiles, MaxStore)}
    /\ mainSchema = Null
    /\ keywordUsage = <<>>
    /\ calls = [c \in Calls |-> IdleFrame]
    /\ hist = NoHist
    /\ probe = NoProbe
    /\ qin \in {[schema |-> n, category |-> c] :
                    n \in ExtractNodes, c \in {Null, JStr(s_c)}}
    /\ qout = NoQuery
    /\ InitColumns

CallExtractProperties ==
    /\ ~qout.done
    /\ qout' = [done |-> TRUE,
                val |-> extractProperties(schemas, qin.schema, qin.category, 1)]
    /\ UNCHANGED <<schemas, mainSchema, keywordUsage, calls, probe, hist, qin, columnVars>>

NextExtract == CallExtractProperties

SpecExtract == InitExtract /\ [][NextExtract]_vars

Extracted == qout.done /\ qout.val.err = "none"

QBranches ==
    IF Get(qin.schema, kw_allOf).k = "array" THEN Get(qin.schema, kw_allOf).v ELSE <<>>

QPairs ==
    IF Get(qin.schema, kw_properties).k = "object"
    THEN Get(qin.schema, kw_properties).v ELSE <<>>

IsRefBranch(i) == Truthy(Get(QBranches[i], kw_ref))

\* the schema node branch i is extracted from; Null when its $ref does not resolve
BranchNode(i) ==
    IF IsRefBranch(i)
    THEN resolveRef(schemas, Get(QBranches[i], kw_ref).v, qin.schema)
    ELSE QBranches[i]

BranchEntries(i) ==
    IF Truthy(BranchNode(i))
    THEN extractProperties(schemas, BranchNode(i), Null, 1).result
    ELSE <<>>

NameAndSchema(entries) ==
    [i \in 1..Len(entries) |-> <<entries[i].name, entries[i].schema>>]

RECURSIVE AllBranchEntries(_)
AllBranchEntries(n) ==
    IF n = 0 THEN <<>> ELSE AllBranchEntries(n - 1) \o NameAndSchema(BranchEntries(n))

\* C3 as stated: the direct properties come first in key insertion order,
\* followed by the entries of every allOf branch in branch order
C3_InsertionOrderThenBranches ==
    Extracted =>
        NameAndSchema(qout.val.result) =
            [i \in 1..Len(QPairs) |-> <<QPairs[i][1], QPairs[i][2]>>]
            \o AllBranchEntries(Len(QBranches))

PositionOf(key) == CHOOSE i \in 1..Len(QPairs) : QPairs[i][1] = key

\* own-property order: array-index keys first in ascending numeric order,
\* then the other keys in insertion order
OwnKeyBefore(k1, k2) ==
    IF IsArrayIndex(k1) /\ IsArrayIndex(k2) THEN NumVal(k1) < NumVal(k2)
    ELSE IF IsArrayIndex(k1) # IsArrayIndex(k2) THEN IsArrayIndex(k1)
    ELSE PositionOf(k1) < PositionOf(k2)

\* C3 (amended): the result is one entry per key of the node's properties in
\* own-property order, followed by the recursively extracted entries of each
\* allOf branch in branch order, nothing dropped or deduplicated
C3_OwnKeyOrderThenBranches ==
    Extracted =>
        LET res == NameAndSchema(qout.val.result)
            d == Len(QPairs)
        IN /\ Len(res) = d + Len(AllBranchEntries(Len(QBranches)))
           /\ \A i \in 1..Len(QPairs) : \E j \in 1..d : res[j] = <<QPairs[i][1], QPairs[i][2]>>
           /\ \A i, j \in 1..d : i < j => OwnKeyBefore(res[i][1], res[j][1])
           /\ [i \in 1..(Len(res) - d) |-> res[d + i]] = AllBranchEntries(Len(QBranches))

C3_Witness ==
    /\ Extracted
    /\ Len(QPairs) = 3
    /\ qout.val.result[1].name = s_1
    /\ qout.val.result[3].name = s_y
    /\ Len(QBranches) = 2
    /\ Len(BranchEntries(1)) >= 2
    /\ Len(BranchEntries(2)) >= 1
    /\ \E i, j \in 4..Len(qout.val.result) :
          i # j /\ qout.val.result[i].name = qout.val.result[j].name

OwnCount(node) ==
    IF Get(node, kw_properties).k = "object" THEN Len(Get(node, kw_properties).v) ELSE 0

RECURSIVE BranchOffset(_)
BranchOffset(i) ==
    IF i = 1 THEN Len(QPairs) ELSE BranchOffset(i - 1) + Len(BranchEntries(i - 1))

\* the entries that branch i contributes for the own properties of its node
BranchOwnPositions(i) ==
    {BranchOffset(i) + n : n \in 1..(IF Truthy(BranchNode(i)) THEN OwnCount(BranchNode(i)) ELSE 0)}

NonEmptyTitle(node) ==
    Get(node, kw_title).k = "string" /\ Len(Get(node, kw_title).v) > 0

BranchResolves(branch) ==
    IF Truthy(Get(branch, kw_ref))
    THEN Truthy(resolveRef(schemas, Get(branch, kw_ref).v, qin.schema))
    ELSE TRUE

\* the node of the query with the unresolved $ref branches taken out of allOf
WithoutUnresolved ==
    JObj([i \in 1..Len(qin.schema.v) |->
            IF qin.schema.v[i][1] = kw_allOf
            THEN <<kw_allOf, JArr(SelectSeq(QBranches, BranchResolves))>>
            ELSE qin.schema.v[i]])

\* C11: an allOf branch whose $ref does not resolve adds no entry and raises
\* no error, and the branches before and after it are extracted in order:
\* the result is that of the same node without its unresolved branches
C11_UnresolvedBranchSkipped ==
    (qout.done /\ \E i \in 1..Len(QBranches) : ~BranchResolves(QBranches[i])) =>
        /\ qout.val.err = "none"
        /\ qout.val = extractProperties(schemas, WithoutUnresolved, qin.category, 1)
        /\ \A i \in 1..Len(QBranches) :
              ~BranchResolves(QBranches[i]) => BranchEntries(i) = <<>>
        /\ Len(qout.val.result) = Len(QPairs) + Len(AllBranchEntries(Len(QBranches)))

C11_Witness ==
    /\ qout.done
    /\ qout.val.err = "none"
    /\ Len(QBranches) = 3
    /\ BranchResolves(QBranches[1]) /\ Len(BranchEntries(1)) >= 1
    /\ ~BranchResolves(QBranches[2])
    /\ IsRefBranch(3) /\ BranchResolves(QBranches[3]) /\ Len(BranchEntries(3)) >= 1
    /\ Len(qout.val.result) = Len(QPairs) + Len(BranchEntries(1)) + Len(BranchEntries(3))

(***************************************************************************)
(* getTableData applied to a processor left by a load (SpecTable)          *)
(***************************************************************************)
s_h == <<"h">>
s_q == <<"q">>
s_r == <<"r">>
s_D == <<"D">>

kw_defs == <<"$", "d", "e", "f", "s">>
s_Row == <<"R", "o", "w">>
s_Base == <<"B", "a", "s", "e">>
ref_Row == <<"#", "/">> \o kw_defs \o <<"/">> \o s_Row
ref_Base == <<"#", "/">> \o kw_defs \o <<"/">> \o s_Base

\* a row schema whose allOf refers to '#/$defs/Base'; more: further keys of the row
rowWithBase(more) ==
    JObj(<< <<kw_properties, JObj(<< <<s_x, fragX>> >>)>>,
            <<kw_allOf, JArr(<<refBranch(ref_Base), inlineBranch>>)>> >> \o more)

baseOfRoot == JObj(<< <<kw_title, JStr(s_T)>>, <<kw_properties, JObj(<< <<s_z, fragZ>> >>)>> >>)

baseOfRow == JObj(<< <<kw_properties, JObj(<< <<s_w, fragW>> >>)>> >>)

arrayOf(items) == << <<kw_type, JStr(str_array)>>, <<kw_items, items>> >>

TableFiles ==
    {File(s_f, Doc(<<>>, arrayOf(rowXY)
                          \o << <<kw_title, JStr(s_T)>>, <<kw_description, JStr(s_D)>> >>)),
     File(s_f, Doc(<<>>, arrayOf(refBranch(<<"#", "/", "d">>))
                          \o << <<kw_title, JStr(<<>>)>>, <<s_d, rowW>> >>)),
     File(s_f, Doc(<<>>, arrayOf(refBranch(<<"#", "/", "q">>)))),
     File(s_f, Doc(<<>>, arrayOf(refBranch(<<"#", "/", "d">>))
                          \o << <<s_d, refBranch(<<"#", "/", "q">>)>>, <<s_q, rowW>> >>)),
     File(s_g, Doc(<<>>, arrayOf(refBranch(s_r)))),
     File(s_g, Doc(<<>>, arrayOf(refBranch(s_h)))),
     File(s_g, Doc(<<>>, arrayOf(JBool(TRUE)))),
     File(s_g, Doc(<<>>, arrayOf(JObj(<< <<kw_ref, JNum(5)>> >>)))),
     File(s_g, Doc(<<>>, << <<kw_items, JBool(FALSE)>>, <<kw_title, JStr(s_T)>> >>)),
     File(s_g, Doc(<<>>, bodyObject)),
     File(s_g, JBool(FALSE)),
     File(s_f, Doc(s_r, << <<kw_properties, JObj(<< <<s_x, fragX>> >>)>>,
                           <<kw_allOf, JArr(<<refBranch(s_h)>>)>> >>)),
     File(s_f, Doc(s_h, << <<kw_ref, JStr(s_r)>> >>)),
     File(s_f, Doc(s_a, bodyArrayRef)),
     File(s_f, Doc(<<>>, arrayOf(refBranch(ref_Row))
                          \o << <<kw_defs, JObj(<< <<s_Row, rowWithBase(<<>>)>>,
                                                   <<s_Base, baseOfRoot>> >>)>> >>)),
     File(s_f, Doc(<<>>, arrayOf(refBranch(ref_Row))
                          \o << <<kw_defs,
                                  JObj(<< <<s_Row,
                                           rowWithBase(<< <<kw_defs,
                                                            JObj(<< <<s_Base, baseOfRow>> >>)>> >>)>>,
                                          <<s_Base, baseOfRoot>> >>)>> >>))}

\* the processor as a load running alone left it
LeftBy(run) ==
    /\ schemas = run[1]
    /\ mainSchema = run[2]
    /\ keywordUsage = run[3]

InitTable ==
    /\ \E fs \in SeqsUpTo(TableFiles, MaxStore) : LeftBy(RunAlone(fs))
    /\ calls = [c \in Calls |-> IdleFrame]
    /\ hist = NoHist
    /\ probe = NoProbe
    /\ qin = NoQuery
    /\ qout = NoQuery
    /\ InitColumns

CallGetTableData ==
    /\ ~qout.done
    /\ qout' = [done |-> TRUE, val |-> getTableData(schemas, mainSchema)]
    /\ UNCHANGED <<schemas, mainSchema, keywordUsage, calls, probe, hist, qin, columnVars>>

NextTable == CallGetTableData

SpecTable == InitTable /\ [][NextTable]_vars

MainItems == Get(mainSchema, kw_items)

ItemsRef == Get(MainItems, kw_ref)

ItemsRefUnresolved ==
    /\ ItemsRef.k = "string"
    /\ ItemsRef.v # <<>>
    /\ ~Truthy(resolveRef(schemas, ItemsRef.v, mainSchema))

\* C12 as stated: null exactly when there is no main schema, the main schema
\* has no items, or items carries a $ref that does not resolve
C12_NullIffNoItems ==
    qout.done =>
        (qout.val.kind = "null" <=>
            (mainSchema = Null \/ ~HasOwn(mainSchema, kw_items) \/ ItemsRefUnresolved))

\* the item schema reached after at most one $ref hop
ItemNode ==
    IF Truthy(ItemsRef) THEN resolveRef(schemas, ItemsRef.v, mainSchema) ELSE MainItems

IsBareRef(node) ==
    /\ node.k = "object"
    /\ Truthy(Get(node, kw_ref))
    /\ ~HasOwn(node, kw_properties)
    /\ ~HasOwn(node, kw_allOf)

\* C12 (amended): null exactly when the main schema is falsy, or its items is
\* absent or falsy, or items carries a string $ref that does not resolve;
\* otherwise, when the extraction returns, the result carries title,
\* description and the properties extracted from the item schema reached
\* after at most one $ref hop (none for a bare $ref object); an error is
\* thrown only by a $ref that is not a string or by the extraction itself
C12_NullIffFalsyItems ==
    qout.done =>
        IF ~Truthy(mainSchema) \/ ~Truthy(MainItems) \/ ItemsRefUnresolved
        THEN qout.val.kind = "null"
        ELSE IF Truthy(ItemsRef) /\ ItemsRef.k # "string"
        THEN qout.val.kind = "TypeError"
        ELSE IF extractProperties(schemas, ItemNode, Null, 1).err # "none"
        THEN qout.val.kind = extractProperties(schemas, ItemNode, Null, 1).err
        ELSE /\ qout.val.kind = "data"
             /\ qout.val.title = orElse(Get(mainSchema, kw_title), JStr(str_DatasetSchema))
             /\ qout.val.description = orElse(Get(mainSchema, kw_description), JStr(<<>>))
             /\ qout.val.properties = extractProperties(schemas, ItemNode, Null, 1).result
             /\ IsBareRef(ItemNode) => qout.val.properties = <<>>

C12_Witness ==
    /\ qout.done
    /\ qout.val.kind = "data"
    /\ Truthy(ItemsRef)
    /\ IsBareRef(ItemNode)
    /\ Truthy(resolveRef(schemas, Get(ItemNode, kw_ref).v, mainSchema))
    /\ HasOwn(resolveRef(schemas, Get(ItemNode, kw_ref).v, mainSchema), kw_properties)
    /\ qout.val.properties = <<>>

(***************************************************************************)
(* The store after a load (SpecLoad): one caller that awaits each call,    *)
(* documents whose identifiers collide                                     *)
(***************************************************************************)
LoadFiles ==
    {File(s_f, Doc(s_a, bodyArray)),
     File(s_g, Doc(s_a, bodyObject)),
     File(s_f, Doc(<<>>, bodyNoType)),
     File(s_f, Doc(<<>>, bodyObject)),
     File(s_g, Doc(s_f, bodyArray)),
     File(s_g, JObj(<< <<kw_id, JStr(<<>>)>> >> \o bodyArray)),
     BadFile(s_g)}

ProcessLoad == \E files \in InputsOver(LoadFiles) : NoneInFlight /\ processFiles("c1", files)

NextLoad == ProcessLoad \/ Resume

SpecLoad == Init /\ [][NextLoad]_vars

LoadedFiles == calls["c1"].files

\* the identifier as the claim words it: $id when present, else the file name
IdWhenPresent(file) ==
    IF HasOwn(file.text.json, kw_id) THEN Get(file.text.json, kw_id).v ELSE file.name

\* the identifier the store uses: $id when it is not empty, else the file name
IdWhenNotEmpty(file) ==
    IF Get(file.text.json, kw_id).k = "string" /\ Len(Get(file.text.json, kw_id).v) > 0
    THEN Get(file.text.json, kw_id).v
    ELSE file.name

StoreKeysDistinct ==
    \A i, j \in 1..Len(schemas) : schemas[i][1] = schemas[j][1] => i = j

\* C13 as stated: after a load the store has one entry per identifier, the
\* identifier being $id when present and the file name otherwise, and each
\* entry is the last loaded document with that identifier
C13_LastPerPresentId ==
    Loaded("c1") =>
        /\ StoreKeysDistinct
        /\ {schemas[i][1] : i \in 1..Len(schemas)} =
               {IdWhenPresent(LoadedFiles[n]) : n \in 1..Len(LoadedFiles)}
        /\ \A i \in 1..Len(schemas) :
              schemas[i][2] =
                  DocAt(LoadedFiles,
                        LastOf({n \in 1..Len(LoadedFiles) :
                                  IdWhenPresent(LoadedFiles[n]) = schemas[i][1]}))

\* C13 (amended): the same, the identifier being $id when it is a non-empty
\* string and the file name otherwise
C13_LastPerNonEmptyId ==
    Loaded("c1") =>
        /\ StoreKeysDistinct
        /\ {schemas[i][1] : i \in 1..Len(schemas)} =
               {IdWhenNotEmpty(LoadedFiles[n]) : n \in 1..Len(LoadedFiles)}
        /\ \A i \in 1..Len(schemas) :
              schemas[i][2] =
                  DocAt(LoadedFiles,
                        LastOf({n \in 1..Len(LoadedFiles) :
                                  IdWhenNotEmpty(LoadedFiles[n]) = schemas[i][1]}))

C13_Witness ==
    /\ Loaded("c1")
    /\ Len(LoadedFiles) = 2
    /\ Len(schemas) = 1
    /\ HasOwn(DocAt(LoadedFiles, 1), kw_id) # HasOwn(DocAt(LoadedFiles, 2), kw_id)
    /\ DocAt(LoadedFiles, 1) # DocAt(LoadedFiles, 2)
    /\ schemas[1][2] = DocAt(LoadedFiles, 2)

\* C14: a main schema held after a processFiles call is one of the documents
\* in the schema store
C14_MainSchemaInStore ==
    (Finished("c1") /\ mainSchema # Null) =>
        \E i \in 1..Len(schemas) : schemas[i][2] = mainSchema

(***************************************************************************)
(* The required flag                                                       *)
(***************************************************************************)
RequiredNames(node) ==
    IF Get(node, kw_required).k = "array"
    THEN {Get(node, kw_required).v[i].v :
            i \in {n \in 1..Len(Get(node, kw_required).v) :
                     Get(node, kw_required).v[n].k = "string"}}
    ELSE {}

\* C15: the required flag of an entry is true exactly when the required list
\* of the node that declares the property under its own properties contains
\* the name; the lists of the parent node and of sibling branches do not
\* count, and a node without a required list gives false
C15_RequiredOfDeclaringNode ==
    Extracted =>
        /\ \A p \in 1..Len(QPairs) :
              qout.val.result[p].required <=>
                  qout.val.result[p].name \in RequiredNames(qin.schema)
        /\ \A i \in 1..Len(QBranches) : \A p \in BranchOwnPositions(i) :
              qout.val.result[p].required <=>
                  qout.val.result[p].name \in RequiredNames(BranchNode(i))

C15_Witness ==
    /\ Extracted
    /\ RequiredNames(qin.schema) = {s_y}
    /\ qout.val.result[1].name = s_x
    /\ ~qout.val.result[1].required
    /\ qout.val.result[2].name = s_y
    /\ qout.val.result[2].required
    /\ \E i, j \in 1..Len(QBranches) :
          /\ ~HasOwn(BranchNode(i), kw_required)
          /\ \E p \in BranchOwnPositions(i) :
                qout.val.result[p].name = s_x /\ ~qout.val.result[p].required
          /\ \E q \in BranchOwnPositions(j) :
                qout.val.result[q].name = s_x /\ qout.val.result[q].required

(***************************************************************************)
(* The base of an internal reference in an allOf branch                    *)
(***************************************************************************)
ItemBranches ==
    IF Get(ItemNode, kw_allOf).k = "array" THEN Get(ItemNode, kw_allOf).v ELSE <<>>

\* the value under node at the path of ref, Null when a segment is missing or falsy
NodeUnder(node, ref) ==
    IF \A n \in 1..Len(refPath(ref)) : Truthy(ValueAt(node, refPath(ref), n))
    THEN ValueAt(node, refPath(ref), Len(refPath(ref)))
    ELSE Null

\* the node an allOf branch of the item schema is extracted from
ItemBranchTarget(i) ==
    IF ~Truthy(Get(ItemBranches[i], kw_ref)) THEN ItemBranches[i]
    ELSE IF IsInternalRef(Get(ItemBranches[i], kw_ref).v)
    THEN NodeUnder(ItemNode, Get(ItemBranches[i], kw_ref).v)
    ELSE resolveRef(schemas, Get(ItemBranches[i], kw_ref).v, ItemNode)

ItemBranchEntries(i) ==
    IF Truthy(ItemBranchTarget(i))
    THEN NameAndSchema(extractProperties(schemas, ItemBranchTarget(i), Null, 1).result)
    ELSE <<>>

RECURSIVE AllItemBranchEntries(_)
AllItemBranchEntries(n) ==
    IF n = 0 THEN <<>> ELSE AllItemBranchEntries(n - 1) \o ItemBranchEntries(n)

\* C16: an internal $ref of an allOf branch is looked up under the schema
\* node that holds the allOf, not under the root of the document: the table
\* lists the item schema's own properties, then for each branch the
\* properties of the node found under the item schema, nothing when the
\* path is missing there
C16_InternalRefUnderContainingNode ==
    (qout.done /\ qout.val.kind = "data") =>
        NameAndSchema(qout.val.properties) =
            NameAndSchema(directProperties(ItemNode, Null))
            \o AllItemBranchEntries(Len(ItemBranches))

C16_Witness ==
    /\ qout.done
    /\ qout.val.kind = "data"
    /\ ItemsRef = JStr(ref_Row)
    /\ Len(ItemBranches) = 2
    /\ Get(ItemBranches[1], kw_ref) = JStr(ref_Base)
    /\ ~HasOwn(ItemNode, kw_defs)
    /\ HasOwn(NodeUnder(mainSchema, ref_Base), kw_properties)
    /\ ItemBranchEntries(1) = <<>>
    /\ Len(qout.val.properties) = 2
    /\ qout.val.properties[1].name = s_x
    /\ qout.val.properties[2].category = Null

(***************************************************************************)
(* extractProperties on reference chains, cyclic or not (SpecCycle)        *)
(***************************************************************************)
\* a document whose allOf refers to the document called target
chainDoc(id, target) ==
    Doc(id, << <<kw_properties, JObj(<< <<s_x, fragX>> >>)>>,
               <<kw_allOf, JArr(<<refBranch(target)>>)>> >>)

\* the same reference, one inline branch further down
nestDoc(id, target) ==
    Doc(id, << <<kw_allOf,
                 JArr(<< JObj(<< <<kw_properties, JObj(<< <<s_y, fragY>> >>)>>,
                                 <<kw_allOf, JArr(<<refBranch(target)>>)>> >>) >>)>> >>)

CycleFiles ==
    {File(s_f, chainDoc(id, t)) : id \in {s_a, s_b}, t \in {s_a, s_b, s_c}}
    \cup {File(s_f, nestDoc(s_a, t)) : t \in {s_a, s_b}}

CycleNodes ==
    {JObj(<< <<kw_allOf, JArr(<<refBranch(t)>>)>> >>) : t \in {s_a, s_b}}
    \cup {JObj(<< <<kw_allOf, JArr(<<refBranch(s_b), refBranch(s_a)>>)>> >>),
          rowXY, chainDoc(s_a, s_a), chainDoc(s_a, s_b), nestDoc(s_a, s_b)}

InitCycle ==
    /\ schemas \in {StoreOf(fs) : fs \in SeqsUpTo(CycleFiles, MaxStore)}
    /\ mainSchema = Null
    /\ keywordUsage = <<>>
    /\ calls = [c \in Calls |-> IdleFrame]
    /\ hist = NoHist
    /\ probe = NoProbe
    /\ qin \in {[schema |-> n, category |-> Null] : n \in CycleNodes}
    /\ qout = NoQuery
    /\ InitColumns

SpecCycle == InitCycle /\ [][NextExtract]_vars

\* the nodes the allOf branches of node are extracted from
AllOfTargets(node) ==
    IF Get(node, kw_allOf).k = "array"
    THEN {t \in {IF Truthy(Get(Get(node, kw_allOf).v[i], kw_ref))
                 THEN resolveRef(schemas, Get(Get(node, kw_allOf).v[i], kw_ref).v, node)
                 ELSE Get(node, kw_allOf).v[i] : i \in 1..Len(Get(node, kw_allOf).v)} :
            Truthy(t)}
    ELSE {}

\* some chain of allOf branches from node comes back to a node under extraction
RECURSIVE LeadsBack(_, _)
LeadsBack(node, extracting) ==
    \/ node \in extracting
    \/ \E t \in AllOfTargets(node) : LeadsBack(t, extracting \cup {node})

RECURSIVE SumOf(_)
SumOf(counts) == IF counts = <<>> THEN 0 ELSE Head(counts) + SumOf(Tail(counts))

RECURSIVE ChainEntries(_)
ChainEntries(node) ==
    OwnCount(node)
    + (IF Get(node, kw_allOf).k = "array"
       THEN LET counts == [i \in 1..Len(Get(node, kw_allOf).v) |->
                             LET b == Get(node, kw_allOf).v[i]
                                 t == IF Truthy(Get(b, kw_ref))
                                      THEN resolveRef(schemas, Get(b, kw_ref).v, node)
                                      ELSE b
                             IN IF Truthy(t) THEN ChainEntries(t) ELSE 0]
            IN SumOf(counts)
       ELSE 0)

\* C17: extractProperties returns a finite list when the allOf/$ref graph
\* below the node is acyclic, and does not return (the recursion runs until
\* the call stack is exhausted) when a chain of allOf references leads back
\* to a node that is being extracted
C17_ReturnsIffAcyclic ==
    qout.done =>
        IF LeadsBack(qin.schema, {})
        THEN qout.val.err = "RangeError"
        ELSE /\ qout.val.err = "none"
             /\ Len(qout.val.result) = ChainEntries(qin.schema)

C17_Witness ==
    /\ qout.done
    /\ qout.val.err = "RangeError"
    /\ Len(schemas) = 2
    /\ schemas[2][2] \in AllOfTargets(schemas[1][2])
    /\ schemas[1][2] \in AllOfTargets(schemas[2][2])
    /\ qin.schema \notin {schemas[1][2], schemas[2][2]}
    /\ LeadsBack(qin.schema, {})

(***************************************************************************)
(* TableRenderer.exportToCSV applied to the table of a load (SpecCsv).     *)
(* The selected columns are restricted to 'name' and 'required'.           *)
(***************************************************************************)
str_Category == <<"C", "a", "t", "e", "g", "o", "r", "y">>
str_VariableName ==
    <<"V", "a", "r", "i", "a", "b", "l", "e", " ", "N", "a", "m", "e">>
str_Required == <<"R", "e", "q", "u", "i", "r", "e", "d">>
str_Yes == <<"Y", "e", "s">>
str_No == <<"N", "o">>

\* getColumnDefinition(col).display
columnDisplay(col) == IF col = "name" THEN str_VariableName ELSE str_Required

\* lines 883-910: the value of one selected column
csvValue(prop, col) ==
    IF col = "name" THEN prop.name
    ELSE IF prop.required THEN str_Yes ELSE str_No

\* String(cell).replace(/"/g, '""')
RECURSIVE doubleQuotes(_)
doubleQuotes(cell) ==
    IF cell = <<>> THEN <<>>
    ELSE (IF Head(cell) = "\"" THEN <<"\"", "\"">> ELSE <<Head(cell)>>)
         \o doubleQuotes(Tail(cell))

includesChar(cell, c) == \E i \in 1..Len(cell) : cell[i] = c

\* lines 913-919
csvEscape(cell) ==
    IF includesChar(cell, "\n") \/ includesChar(cell, ",") \/ includesChar(cell, "\"")
    THEN <<"\"">> \o doubleQuotes(cell) \o <<"\"">>
    ELSE doubleQuotes(cell)

\* lines 874-875
nextCategory(prop, currentCategory) ==
    IF Truthy(prop.category) /\ prop.category # currentCategory
    THEN prop.category
    ELSE currentCategory

\* line 878 and lines 881-910
csvRow(prop, columns, currentCategory) ==
    <<orElse(currentCategory, JStr(<<>>)).v>>
    \o [c \in 1..Len(columns) |-> csvValue(prop, columns[c])]

\* lines 872-913
RECURSIVE csvDataRows(_, _, _)
csvDataRows(properties, columns, currentCategory) ==
    IF properties = <<>> THEN <<>>
    ELSE <<csvRow(Head(properties), columns,
                  nextCategory(Head(properties), currentCategory))>>
         \o csvDataRows(Tail(properties), columns,
                        nextCategory(Head(properties), currentCategory))

csvRows(data, columns) ==
    << <<str_Category>> \o [c \in 1..Len(columns) |-> columnDisplay(columns[c])] >>
    \o csvDataRows(data.properties, columns, JStr(<<>>))

RECURSIVE join(_, _)
join(parts, sep) ==
    IF parts = <<>> THEN <<>>
    ELSE IF Len(parts) = 1 THEN parts[1]
    ELSE parts[1] \o <<sep>> \o join(Tail(parts), sep)

escapedRows(rows) ==
    [r \in 1..Len(rows) |-> [c \in 1..Len(rows[r]) |-> csvEscape(rows[r][c])]]

csvText(rows) == join([r \in 1..Len(rows) |-> join(rows[r], ",")], "\n")

exportToCSV(data, columns) ==
    IF data.kind = "null" THEN [cells |-> <<>>, text |-> <<>>]
    ELSE [cells |-> escapedRows(csvRows(data, columns)),
          text |-> csvText(escapedRows(csvRows(data, columns)))]

docComma ==
    Doc(s_b, << <<kw_title, JStr(<<"a", ",", "b">>)>>,
                <<kw_properties, JObj(<< <<s_y, fragY>> >>)>> >>)

CsvBranches ==
    {<<>>, <<refBranch(s_a)>>, <<inlineBranch>>, <<refBranch(s_a), inlineBranch>>,
     <<inlineBranch, refBranch(s_a)>>, <<refBranch(s_b), refBranch(s_a)>>,
     <<refBranch(s_a), inlineBranch, refBranch(s_b)>>}

CsvFiles ==
    {File(s_g, Doc(<<>>, arrayOf(JObj(<< <<kw_properties, JObj(<< <<s_z, fragZ>> >>)>>,
                                         <<kw_allOf, JArr(bs)>> >>)))) : bs \in CsvBranches}
    \cup {File(s_f, docTitled), File(s_f, docComma), File(s_g, Doc(<<>>, bodyObject))}

CsvColumns == {<<>>, <<"name">>, <<"name", "required">>, <<"required", "name">>}

InitCsv ==
    /\ \E fs \in SeqsUpTo(CsvFiles, MaxStore) : LeftBy(RunAlone(fs))
    /\ calls = [c \in Calls |-> IdleFrame]
    /\ hist = NoHist
    /\ probe = NoProbe
    /\ qin = NoQuery
    /\ qout = NoQuery
    /\ InitColumns

\* the export button: exportToCSV(currentData, selected columns)
CallExportToCSV ==
    /\ ~qout.done
    /\ \E columns \in CsvColumns :
          /\ qin' = [done |-> TRUE, val |-> columns]
          /\ qout' = [done |-> TRUE,
                      val |-> exportToCSV(getTableData(schemas, mainSchema), columns)]
    /\ UNCHANGED <<schemas, mainSchema, keywordUsage, calls, probe, hist, columnVars>>

NextCsv == CallExportToCSV

SpecCsv == InitCsv /\ [][NextCsv]_vars

\* C18: the first cell of every data row is the Category cell, and it is the
\* empty string whenever the row's property has no category, wherever the
\* row sits relative to rows that have one
C18_NullCategoryCellEmpty ==
    (qout.done /\ getTableData(schemas, mainSchema).kind = "data") =>
        /\ Len(qout.val.cells) = Len(TableProperties) + 1
        /\ qout.val.cells[1][1] = str_Category
        /\ \A i \in 1..Len(TableProperties) :
              TableProperties[i].category = Null => qout.val.cells[i + 1][1] = <<>>

(***************************************************************************)
(* The exact-key fallback of resolveRef                                    *)
(***************************************************************************)
FirstSuffixMatch ==
    CHOOSE i \in 1..Len(schemas) : SuffixMatch(i) /\ \A j \in 1..(i - 1) : ~SuffixMatch(j)

\* C19: for a ref not starting with '#', whenever the store has a key equal
\* to ref the suffix scan has returned a document at or before that key, so
\* resolveRef gives what the suffix scan alone followed by null gives
C19_ExactKeyFallbackIsDead ==
    (qout.done /\ ~IsInternalRef(qin.ref)) =>
        /\ \A i \in 1..Len(schemas) :
              schemas[i][1] = qin.ref => \E j \in 1..i : SuffixMatch(j)
        /\ qout.val = IF \E i \in 1..Len(schemas) : SuffixMatch(i)
                      THEN schemas[FirstSuffixMatch][2]
                      ELSE Null

C19_Witness ==
    /\ qout.done
    /\ ~IsInternalRef(qin.ref)
    /\ Len(schemas) = 2
    /\ schemas[2][1] = qin.ref
    /\ schemas[1][1] # qin.ref
    /\ SuffixMatch(1)
    /\ qout.val = schemas[1][2]
    /\ qout.val # schemas[2][2]

(***************************************************************************)
(* ColumnManager: the column selector and its events (SpecColumns).        *)
(* columnDefinitions is cut down to the default columns and                *)
(* additionalInfo.  Indexes are those of the source, counted from 0.       *)
(***************************************************************************)
columnDefinitionKeys ==
    <<"name", "description", "type", "enum", "required", "additionalInfo">>

defaultColumnOrder == defaultColumns

\* the element `undefined` in selectedColumns
NoColumn == "undefined"

Includes(columns, keyword) == \E i \in 1..Len(columns) : columns[i] = keyword

\* Array.from(new Set(columns))
RECURSIVE uniqueInto(_, _)
uniqueInto(columns, acc) ==
    IF columns = <<>> THEN acc
    ELSE uniqueInto(Tail(columns),
                    IF Includes(acc, Head(columns)) THEN acc ELSE Append(acc, Head(columns)))

\* const [movedColumn] = columns.splice(fromIndex, 1)
movedColumn(columns, fromIndex) ==
    IF fromIndex < Len(columns) THEN columns[fromIndex + 1] ELSE NoColumn

spliceOut(columns, fromIndex) ==
    IF fromIndex < Len(columns)
    THEN SubSeq(columns, 1, fromIndex) \o SubSeq(columns, fromIndex + 2, Len(columns))
    ELSE columns

\* columns.splice(toIndex, 0, column)
spliceIn(columns, toIndex, column) ==
    IF toIndex < Len(columns)
    THEN SubSeq(columns, 1, toIndex) \o <<column>> \o SubSeq(columns, toIndex + 1, Len(columns))
    ELSE Append(columns, column)

moveColumn(columns, fromIndex, toIndex) ==
    IF fromIndex = toIndex THEN columns
    ELSE spliceIn(spliceOut(columns, fromIndex), toIndex, movedColumn(columns, fromIndex))

resetColumnOrder(columns) ==
    SelectSeq(defaultColumnOrder, LAMBDA col : Includes(columns, col))
    \o SelectSeq(uniqueInto(columns, <<>>), LAMBDA col : ~Includes(defaultColumnOrder, col))

\* line 341: only selected non-mandatory items are draggable
draggable_any(keyword, isSelected) == isSelected

draggable(keyword, isSelected) == isSelected /\ keyword # "name"

hasItem(items, keyword) == \E i \in 1..Len(items) : items[i].keyword = keyword

\* renderCheckboxItem
renderCheckboxItem(items, keyword, index, isSelected) ==
    IF hasItem(items, keyword) THEN items
    ELSE Append(items, [keyword |-> keyword, index |-> index, isSelected |-> isSelected,
                        draggable |-> draggable(keyword, isSelected)])

\* lines 289-295; getColumnDefinition throws a TypeError on `undefined`, which
\* ends the rendering with the items made so far
RECURSIVE renderSelected(_, _, _)
renderSelected(columns, i, items) ==
    IF i >= Len(columns) THEN items
    ELSE IF columns[i + 1] = NoColumn THEN items
    ELSE renderSelected(columns, i + 1, renderCheckboxItem(items, columns[i + 1], i, TRUE))

allKeywords == <<"name", "required", "additionalInfo">> \o columnDefinitionKeys

\* keywordCountMap.get(keyword) || 0, null (-1) for additionalInfo
RECURSIVE countIn(_, _)
countIn(stats, keyword) ==
    IF stats = <<>> THEN 0
    ELSE IF stats[Len(stats)][1] = keyword THEN stats[Len(stats)][2]
    ELSE countIn(SubSeq(stats, 1, Len(stats) - 1), keyword)

unselectedCount(stats, keyword) ==
    IF keyword = "additionalInfo" THEN -1
    ELSE IF stats.k = "array" THEN countIn(stats.v, keyword) ELSE 0

\* lines 311-315: by count descending, null last; the sort is stable
RECURSIVE insertByCount(_, _)
insertByCount(sorted, entry) ==
    IF sorted = <<>> THEN <<entry>>
    ELSE IF Head(sorted).count >= entry.count
    THEN <<Head(sorted)>> \o insertByCount(Tail(sorted), entry)
    ELSE <<entry>> \o sorted

RECURSIVE sortByCount(_, _)
sortByCount(entries, sorted) ==
    IF entries = <<>> THEN sorted
    ELSE sortByCount(Tail(entries), insertByCount(sorted, Head(entries)))

\* lines 298-308
unselectedKeywords(items, stats) ==
    [i \in 1..Len(SelectSeq(allKeywords, LAMBDA keyword : ~hasItem(items, keyword))) |->
        [keyword |-> SelectSeq(allKeywords, LAMBDA keyword : ~hasItem(items, keyword))[i],
         count |-> unselectedCount(
                       stats, SelectSeq(allKeywords, LAMBDA keyword : ~hasItem(items, keyword))[i])]]

\* lines 330-333
RECURSIVE renderUnselected(_, _)
renderUnselected(items, entries) ==
    IF entries = <<>> THEN items
    ELSE renderUnselected(renderCheckboxItem(items, Head(entries).keyword, -1, FALSE),
                          Tail(entries))

renderRest(items, stats) ==
    renderUnselected(items, sortByCount(unselectedKeywords(items, stats), <<>>))

refreshThrows(columns) == Includes(columns, NoColumn)

\* refreshColumnList: the checkbox items it leaves in the list
refreshColumnList(columns, stats) ==
    IF refreshThrows(columns) THEN renderSelected(columns, 0, <<>>)
    ELSE renderRest(renderSelected(columns, 0, <<>>), stats)

ColumnStats ==
    {JArr(<<>>), JArr(<< <<"enum", 2>>, <<"type", 1>>, <<"minLength", 1>> >>)}

undefinedCount(columns) == Cardinality({i \in 1..Len(columns) : columns[i] = NoColumn})

\* lines 264-270, called by the process button after a successful load; when
\* refreshColumnList throws no selector is shown
renderColumnSelector(stats) ==
    /\ keywordStats' = stats
    /\ columnList' = IF refreshThrows(selectedColumns) THEN <<>>
                     ELSE refreshColumnList(selectedColumns, stats)
    /\ UNCHANGED <<selectedColumns, draggedIndex>>

\* a handler assigned selectedColumns and called refreshColumnList
selectColumns(columns) ==
    /\ selectedColumns' = columns
    /\ columnList' = refreshColumnList(columns, keywordStats)
    /\ UNCHANGED <<draggedIndex, keywordStats>>

\* lines 497-520: the user toggled the checkbox of item n (that of 'name' is disabled)
handleCheckboxChange(n) ==
    /\ columnList[n].keyword # "name"
    /\ IF ~columnList[n].isSelected
       THEN selectColumns(IF Includes(selectedColumns, columnList[n].keyword)
                          THEN selectedColumns
                          ELSE Append(selectedColumns, columnList[n].keyword))
       ELSE selectColumns(SelectSeq(selectedColumns,
                                    LAMBDA col : col # columnList[n].keyword))

uncheckedValues ==
    LET unchecked == SelectSeq(columnList, LAMBDA item : ~item.isSelected)
    IN [i \in 1..Len(unchecked) |-> unchecked[i].keyword]

\* lines 455-470
selectAll == selectColumns(uniqueInto(selectedColumns \o uncheckedValues, <<>>))

\* lines 473-478
selectNone == selectColumns(<<"name">>)

\* lines 481-485
selectDefault == selectColumns(defaultColumns)

\* lines 488-492
resetOrder == selectColumns(resetColumnOrder(selectedColumns))

\* lines 372-377
dragstart(n) ==
    /\ columnList[n].draggable
    /\ draggedIndex' = columnList[n].index
    /\ UNCHANGED <<selectedColumns, keywordStats, columnList>>

\* lines 405-429, the move of line 412 done
dropMoved(columns) ==
    /\ undefinedCount(columns) <= MaxUndefined
    /\ selectedColumns' = columns
    /\ columnList' = refreshColumnList(columns, keywordStats)
    /\ draggedIndex' = IF refreshThrows(columns) THEN draggedIndex ELSE -1
    /\ UNCHANGED keywordStats

\* lines 405-429: something was dropped on item n
drop(n) ==
    /\ columnList[n].draggable
    /\ IF draggedIndex # -1 /\ columnList[n].index >= 0 /\ draggedIndex # columnList[n].index
       THEN dropMoved(moveColumn(selectedColumns, draggedIndex, columnList[n].index))
       ELSE /\ draggedIndex' = -1
            /\ UNCHANGED <<selectedColumns, keywordStats, columnList>>

ProcessorUnchanged == UNCHANGED <<schemas, mainSchema, keywordUsage, calls, probe, hist, qin, qout>>

RenderColumnSelector == (\E stats \in ColumnStats : renderColumnSelector(stats)) /\ ProcessorUnchanged

CheckboxChange == (\E n \in 1..Len(columnList) : handleCheckboxChange(n)) /\ ProcessorUnchanged

SelectAll == columnList # <<>> /\ selectAll /\ ProcessorUnchanged

SelectNone == columnList # <<>> /\ selectNone /\ ProcessorUnchanged

SelectDefault == columnList # <<>> /\ selectDefault /\ ProcessorUnchanged

ResetOrder == columnList # <<>> /\ resetOrder /\ ProcessorUnchanged

DragStart == (\E n \in 1..Len(columnList) : dragstart(n)) /\ ProcessorUnchanged

Drop == (\E n \in 1..Len(columnList) : drop(n)) /\ ProcessorUnchanged

NextColumns ==
    \/ RenderColumnSelector
    \/ CheckboxChange
    \/ SelectAll
    \/ SelectNone
    \/ SelectDefault
    \/ ResetOrder
    \/ DragStart
    \/ Drop

SpecColumns == Init /\ [][NextColumns]_vars

\* C20: after any sequence of column-selector events the selected-column
\* list has 'name' exactly once, at index 0, and no keyword twice
C20_NameFirstNoKeywordTwice ==
    /\ Len(selectedColumns) >= 1
    /\ selectedColumns[1] = "name"
    /\ \A i \in 2..Len(selectedColumns) : selectedColumns[i] # "name"
    /\ \A i, j \in 1..Len(selectedColumns) :
          (i # j /\ selectedColumns[i] = selectedColumns[j]) =>
              selectedColumns[i] \notin {allKeywords[n] : n \in 1..Len(allKeywords)}

C20_Witness ==
    /\ selectedColumns = <<"name", NoColumn, "enum", "additionalInfo">>
    /\ draggedIndex # -1
    /\ keywordStats # JArr(<<>>)
    /\ Len(columnList) = 1

====
